---- MODULE Spec2Model ----
(***************************************************************************)
(* Asynchronous task orchestration of the ML services app10 and app9:      *)
(* task submission, the task record store, the Celery workers that run the *)
(* tasks and write their status, and the status query.                     *)
(*                                                                         *)
(* One behaviour of the model is one deployment: `app` names the service   *)
(* (app10 or app9), SpecApp10 and SpecApp9 are the two deployments.        *)
(*                                                                         *)
(* Optional (nullable) values are sequences: Null is <<>>, a present value *)
(* v is <<v>>.                                                             *)
(***************************************************************************)
EXTENDS Integers, Sequences, FiniteSets, TLC

\* ------------------------------------------------------------------ bounds
NumTarefas == 2     \* task ids that may be submitted
NumWorkers == 2     \* worker processes of the pool
MaxEntregas == 2    \* deliveries of one task message (first one + redeliveries)
MaxRelogio == 1     \* ticks of the wall clock
MaxConsultas == 1   \* status queries that are counted
MaxLimpezas == 1    \* runs of the periodic cleanup task

TaskIds == 1..NumTarefas
Workers == 1..NumWorkers

Null == <<>>
Some(v) == <<v>>

\* the kinds of job the endpoints write (app10: treinar / prever; app9: the
\* tipo argument of registrar_tarefa), and the payloads the executor can produce
TiposApp10 == {"treinamento", "predicao"}
TiposRegistrar == {"treinamento", "previsao"}
Resultados == {"metricas"}
Mensagens == {"", "model not trained"}

VARIABLES
    app,        \* "app10" | "app9": the service that is deployed
    tarefas,    \* the task table: a sequence of rows, in insertion order
    sub,        \* per task id: how far its submission request has got
    fila,       \* per task id: copies of its message ready in the broker queue
    entregas,   \* per task id: deliveries of its message to workers so far
    pc,         \* per worker: "ocioso" | "recebida" | "executando"
    tw,         \* per worker: the task id of the message it holds (0: none)
    execs,      \* per task id: invocations of the executor so far
    cancelada,  \* per task id: when the revocation handler marked it
    disputa,    \* per task id: two workers held its message at the claim step
                \* while its row was pending (history)
    relogio,    \* the wall clock
    contador_requisicoes,  \* app9, the API process: its request statistics
    atribuidos, \* the pairs <<row, task_id>>: row has held task_id (history)
    erros_limpeza  \* app10: ERROR_COUNTER of location limpar_tarefas_antigas

vars == <<app, tarefas, sub, fila, entregas, pc, tw, execs, cancelada, disputa, relogio,
          contador_requisicoes, atribuidos, erros_limpeza>>

\* ------------------------------------------------------------ the store

\* Python truthiness of an optional payload: None, '' and {} are falsy
Falsy == {"", "{}"}
Truthy(x) == x # Null /\ x[1] \notin Falsy

\* db.query(...).filter(task_id == t).first(): the index of the first row, 0 if none
Buscar(tab, t) ==
    IF \E i \in 1..Len(tab) : tab[i].task_id = t
    THEN CHOOSE i \in 1..Len(tab) :
            /\ tab[i].task_id = t
            /\ \A j \in 1..(i - 1) : tab[j].task_id # t
    ELSE 0

\* app10, Tarefa(...) as built by the endpoints treinar / prever
NovaTarefa(t, tipo, agora) ==
    [task_id |-> t, tipo |-> tipo, status |-> "pendente",
     dados_entrada |-> Some("dados"), resultado |-> Null, erro |-> Null,
     timestamp_inicio |-> Some(agora), timestamp_atualizacao |-> Some(agora),
     duracao |-> Null]

\* a status write whose failed commit is not rolled back: the new status stays
atualizar_status_sem_rollback(tab, t, status, resultado, erro, agora, db_falha) ==
    LET i == Buscar(tab, t) IN
    IF i = 0 THEN tab ELSE [tab EXCEPT ![i].status = status]

\* app10 worker: the status write. db_falha: the session or the commit
\* raises, the transaction is rolled back and the function returns False.
atualizar_status_tarefa(tab, t, status, resultado, erro, agora, db_falha) ==
    LET i == Buscar(tab, t) IN
    IF db_falha \/ i = 0 THEN tab
    ELSE [tab EXCEPT ![i] =
            [@ EXCEPT
                !.status = status,
                !.resultado = IF Truthy(resultado) THEN resultado ELSE @,
                !.erro = IF Truthy(erro) THEN erro ELSE @,
                !.duracao =
                    IF status \in {"concluida", "falha"} /\ tab[i].timestamp_inicio # Null
                    THEN Some(agora - tab[i].timestamp_inicio[1])
                    ELSE @,
                !.timestamp_atualizacao = Some(agora)]]

\* app10 worker: what the status write returns. False when the row is not
\* found (if not tarefa: return False) and when the session or the commit
\* raises (both except branches return False), True after db.commit()
retorno_atualizar_status_tarefa(tab, t, db_falha) ==
    IF db_falha THEN FALSE
    ELSE IF Buscar(tab, t) = 0 THEN FALSE
    ELSE TRUE

StatusDe(tab, t) == IF Buscar(tab, t) = 0 THEN Null ELSE Some(tab[Buscar(tab, t)].status)

\* ------------------------------------------------------------------ init
Init ==
    /\ app \in {"app10", "app9"}
    /\ tarefas = <<>>
    /\ sub = [t \in TaskIds |-> "novo"]
    /\ fila = [t \in TaskIds |-> 0]
    /\ entregas = [t \in TaskIds |-> 0]
    /\ pc = [w \in Workers |-> "ocioso"]
    /\ tw = [w \in Workers |-> 0]
    /\ execs = [t \in TaskIds |-> 0]
    /\ cancelada = [t \in TaskIds |-> "nao"]
    /\ disputa = [t \in TaskIds |-> FALSE]
    /\ relogio = 0
    /\ contador_requisicoes = [total |-> 0, consultas |-> 0]
    /\ atribuidos = {}
    /\ erros_limpeza = 0

\* the wall clock advances
Tique ==
    /\ relogio < MaxRelogio
    /\ relogio' = relogio + 1
    /\ UNCHANGED <<app, tarefas, sub, fila, entregas, pc, tw, execs, cancelada, disputa, contador_requisicoes, atribuidos, erros_limpeza>>

\* -------------------------------------------------------- app10: submit

\* treinar / prever, async branch: task_id = uuid4(); db.add(Tarefa(...)); db.commit()
InserirTarefa(t, tipo) ==
    /\ app = "app10"
    /\ sub[t] = "novo"
    /\ tarefas' = Append(tarefas, NovaTarefa(t, tipo, relogio))
    /\ atribuidos' = atribuidos \cup {<<Len(tarefas) + 1, t>>}
    /\ sub' = [sub EXCEPT ![t] = "inserida"]
    /\ UNCHANGED <<app, fila, entregas, pc, tw, execs, cancelada, disputa, relogio, contador_requisicoes, erros_limpeza>>

\* apply_async(..., task_id=task_id) publishes the message; the endpoint returns
Enfileirar(t) ==
    /\ app = "app10"
    /\ sub[t] = "inserida"
    /\ fila' = [fila EXCEPT ![t] = @ + 1]
    /\ sub' = [sub EXCEPT ![t] = "retornou"]
    /\ UNCHANGED <<app, tarefas, entregas, pc, tw, execs, cancelada, disputa, relogio, contador_requisicoes, atribuidos, erros_limpeza>>

\* apply_async raises although the broker took the message
EnfileirarFalhaPublicada(t) ==
    /\ app = "app10"
    /\ sub[t] = "inserida"
    /\ fila' = [fila EXCEPT ![t] = @ + 1]
    /\ sub' = [sub EXCEPT ![t] = "erro"]
    /\ UNCHANGED <<app, tarefas, entregas, pc, tw, execs, cancelada, disputa, relogio, contador_requisicoes, atribuidos, erros_limpeza>>

\* apply_async raises (broker unreachable): the error reaches the caller, the
\* committed row stays
EnfileirarFalha(t) ==
    /\ app = "app10"
    /\ sub[t] = "inserida"
    /\ sub' = [sub EXCEPT ![t] = "erro"]
    /\ UNCHANGED <<app, tarefas, fila, entregas, pc, tw, execs, cancelada, disputa, relogio, contador_requisicoes, atribuidos, erros_limpeza>>

\* ------------------------------------------------- app9: store and submit

\* str(x): a str is returned as it is, a dict becomes its printed form
Str(v) == IF v \in Mensagens THEN v ELSE "str(metricas)"

\* app9, TarefaAssincrona(...) as built by registrar_tarefa
NovaTarefaAssincrona(t, tipo, agora) ==
    [task_id |-> t, tipo |-> tipo, status |-> "PENDENTE",
     timestamp_criacao |-> Some(agora), timestamp_inicio |-> Null,
     timestamp_fim |-> Null, parametros |-> Some("dados"),
     resultado |-> Null, erro |-> Null]

\* app9 worker: the status write. db_falha: the query or the commit raises,
\* the exception is logged and the session is closed without a commit.
atualizar_status_tarefa_app9(tab, t, status, resultado, erro, db_falha) ==
    LET i == Buscar(tab, t) IN
    IF db_falha \/ i = 0 THEN tab
    ELSE [tab EXCEPT ![i] =
            [@ EXCEPT
                !.status = status,
                !.resultado = IF resultado # Null THEN Some(Str(resultado[1])) ELSE @,
                !.erro = IF erro # Null THEN Some(Str(erro[1])) ELSE @]]

\* a registrar_requisicao that counts the request in the total only
registrar_so_no_total(c, tipo) == [c EXCEPT !.total = @ + 1]

\* registrar_requisicao(tipo): contador_requisicoes["total"] += 1 and the
\* counter of the kind of request += 1, when the kind is a key of the dict (the
\* deployments of app9 below follow the keys total and consultas only)
registrar_requisicao(c, tipo) ==
    LET contado == [c EXCEPT !.total = @ + 1] IN
    IF tipo \in DOMAIN contado THEN [contado EXCEPT ![tipo] = @ + 1] ELSE contado

\* treinar / prever, async branch: the request is counted, then
\* celery_app.send_task(...) publishes the message under a fresh id chosen by
\* Celery
EnviarTarefa(t) ==
    /\ app = "app9"
    /\ sub[t] = "novo"
    /\ contador_requisicoes' = registrar_requisicao(contador_requisicoes, "assincronas")
    /\ fila' = [fila EXCEPT ![t] = @ + 1]
    /\ sub' = [sub EXCEPT ![t] = "enviada"]
    /\ UNCHANGED <<app, tarefas, entregas, pc, tw, execs, cancelada, disputa, relogio, atribuidos, erros_limpeza>>

\* registrar_tarefa(db, task.id, tipo, parametros), then the endpoint returns
registrar_tarefa(t, tipo) ==
    /\ app = "app9"
    /\ sub[t] = "enviada"
    /\ tarefas' = Append(tarefas, NovaTarefaAssincrona(t, tipo, relogio))
    /\ atribuidos' = atribuidos \cup {<<Len(tarefas) + 1, t>>}
    /\ sub' = [sub EXCEPT ![t] = "retornou"]
    /\ UNCHANGED <<app, fila, entregas, pc, tw, execs, cancelada, disputa, relogio, contador_requisicoes, erros_limpeza>>

\* prever_lote (and the treinar / prever of the same shape): the row is
\* inserted under the placeholder task_id "pending"
Pendente == 0

\* a first commit that inserts the row under the id the task will have
prever_lote_inserir_com_id(t) ==
    /\ app = "app9"
    /\ sub[t] = "novo"
    /\ tarefas' = Append(tarefas, NovaTarefaAssincrona(t, "PREVISAO_LOTE", relogio))
    /\ atribuidos' = atribuidos \cup {<<Len(tarefas) + 1, t>>}
    /\ sub' = [sub EXCEPT ![t] = "lote_inserida"]
    /\ UNCHANGED <<app, fila, entregas, pc, tw, execs, cancelada, disputa, relogio, contador_requisicoes, erros_limpeza>>

\* prever_lote, first commit: TarefaAssincrona(task_id="pending", ...) is
\* inserted. task_id is a unique column: the request that will get id t
\* inserts while no other row holds the placeholder
prever_lote_inserir(t) ==
    /\ app = "app9"
    /\ sub[t] = "novo"
    /\ Buscar(tarefas, Pendente) = 0
    /\ tarefas' = Append(tarefas, NovaTarefaAssincrona(Pendente, "PREVISAO_LOTE", relogio))
    /\ atribuidos' = atribuidos \cup {<<Len(tarefas) + 1, Pendente>>}
    /\ sub' = [sub EXCEPT ![t] = "lote_inserida"]
    /\ UNCHANGED <<app, fila, entregas, pc, tw, execs, cancelada, disputa, relogio, contador_requisicoes, erros_limpeza>>

\* prever_lote, first commit, while another row holds the placeholder: the
\* unique constraint rejects the insert and the request fails
prever_lote_duplicada(t) ==
    /\ app = "app9"
    /\ sub[t] = "novo"
    /\ Buscar(tarefas, Pendente) # 0
    /\ sub' = [sub EXCEPT ![t] = "erro"]
    /\ UNCHANGED <<app, tarefas, fila, entregas, pc, tw, execs, cancelada, disputa, relogio, contador_requisicoes, atribuidos, erros_limpeza>>

\* prever_lote: task = fazer_previsao.delay(...) publishes the message under
\* the id t chosen by Celery
prever_lote_delay(t) ==
    /\ app = "app9"
    /\ sub[t] = "lote_inserida"
    /\ fila' = [fila EXCEPT ![t] = @ + 1]
    /\ sub' = [sub EXCEPT ![t] = "lote_enviada"]
    /\ UNCHANGED <<app, tarefas, entregas, pc, tw, execs, cancelada, disputa, relogio, contador_requisicoes, atribuidos, erros_limpeza>>

\* prever_lote: fazer_previsao.delay(...) raises (broker unreachable): the
\* request fails, the row committed under the placeholder stays
prever_lote_delay_falha(t) ==
    /\ app = "app9"
    /\ sub[t] = "lote_inserida"
    /\ sub' = [sub EXCEPT ![t] = "erro"]
    /\ UNCHANGED <<app, tarefas, fila, entregas, pc, tw, execs, cancelada, disputa, relogio, contador_requisicoes, atribuidos, erros_limpeza>>

\* prever_lote, second commit: tarefa.task_id = task.id on the row the
\* request inserted; the endpoint returns the id
prever_lote_atualizar_id(t) ==
    /\ app = "app9"
    /\ sub[t] = "lote_enviada"
    /\ tarefas' = [tarefas EXCEPT ![Buscar(tarefas, Pendente)].task_id = t]
    /\ atribuidos' = atribuidos \cup {<<Buscar(tarefas, Pendente), t>>}
    /\ sub' = [sub EXCEPT ![t] = "retornou"]
    /\ UNCHANGED <<app, fila, entregas, pc, tw, execs, cancelada, disputa, relogio, contador_requisicoes, erros_limpeza>>

\* ------------------------------------------------------------ the broker

\* a worker takes a message from the queue (worker_prefetch_multiplier = 1:
\* one message per worker at a time)
Receber(w, t) ==
    /\ pc[w] = "ocioso"
    /\ fila[t] > 0
    /\ fila' = [fila EXCEPT ![t] = @ - 1]
    /\ entregas' = [entregas EXCEPT ![t] = @ + 1]
    /\ pc' = [pc EXCEPT ![w] = "recebida"]
    /\ tw' = [tw EXCEPT ![w] = t]
    /\ disputa' = [disputa EXCEPT ![t] =
            \/ @
            \/ /\ StatusDe(tarefas, t) \in {Some("pendente"), Some("PENDENTE")}
               /\ \E w2 \in Workers \ {w} : tw[w2] = t /\ pc[w2] = "recebida"]
    /\ UNCHANGED <<app, tarefas, sub, execs, cancelada, relogio, contador_requisicoes, atribuidos, erros_limpeza>>

\* app10, task_acks_late: the message stays unacknowledged while the task body
\* runs, and the broker may deliver an unacknowledged message again
Reentregar(t) ==
    /\ app = "app10"
    /\ \E w \in Workers : pc[w] # "ocioso" /\ tw[w] = t
    /\ entregas[t] + fila[t] < MaxEntregas
    /\ fila' = [fila EXCEPT ![t] = @ + 1]
    /\ UNCHANGED <<app, tarefas, sub, entregas, pc, tw, execs, cancelada, disputa, relogio, contador_requisicoes, atribuidos, erros_limpeza>>

\* the worker process dies while it holds a message. app10 (task_acks_late,
\* task_reject_on_worker_lost): the message goes back to the queue. app9
\* (acknowledged on receipt): the message is gone.
WorkerPerdido(w) ==
    /\ pc[w] # "ocioso"
    /\ entregas[tw[w]] + fila[tw[w]] < MaxEntregas
    /\ fila' = IF app = "app10" THEN [fila EXCEPT ![tw[w]] = @ + 1] ELSE fila
    /\ pc' = [pc EXCEPT ![w] = "ocioso"]
    /\ tw' = [tw EXCEPT ![w] = 0]
    /\ UNCHANGED <<app, tarefas, sub, entregas, execs, cancelada, disputa, relogio, contador_requisicoes, atribuidos, erros_limpeza>>

\* ------------------------------------------------------- app10: the worker

\* treinar_modelo / realizar_previsao, up to the call of the executor:
\* atualizar_status_tarefa(task_id, 'em_progresso'), return value ignored, then
\* modelo.treinar / modelo.prever is called
IniciarApp10(w, db_falha) ==
    /\ app = "app10"
    /\ pc[w] = "recebida"
    /\ tarefas' = atualizar_status_tarefa(tarefas, tw[w], "em_progresso", Null, Null,
                                          relogio, db_falha)
    /\ execs' = [execs EXCEPT ![tw[w]] = @ + 1]
    /\ pc' = [pc EXCEPT ![w] = "executando"]
    /\ UNCHANGED <<app, sub, fila, entregas, tw, cancelada, disputa, relogio, contador_requisicoes, atribuidos, erros_limpeza>>

\* the worker is done with its message: it is acknowledged
Liberar(w) ==
    /\ pc' = [pc EXCEPT ![w] = "ocioso"]
    /\ tw' = [tw EXCEPT ![w] = 0]

\* the executor returns r: atualizar_status_tarefa(task_id, 'concluida', resultado)
ConcluirApp10(w, r, db_falha) ==
    /\ app = "app10"
    /\ pc[w] = "executando"
    /\ tarefas' = atualizar_status_tarefa(tarefas, tw[w], "concluida", Some(r), Null,
                                          relogio, db_falha)
    /\ Liberar(w)
    /\ UNCHANGED <<app, sub, fila, entregas, execs, cancelada, disputa, relogio, contador_requisicoes, atribuidos, erros_limpeza>>

\* the executor raises e with str(e) = m:
\* atualizar_status_tarefa(task_id, 'falha', erro=m), then the exception is re-raised
\* to Celery, which acknowledges the message (the failure path in one step)
FalharApp10(w, m, db_falha) ==
    /\ app = "app10"
    /\ pc[w] = "executando"
    /\ tarefas' = atualizar_status_tarefa(tarefas, tw[w], "falha", Null, Some(m),
                                          relogio, db_falha)
    /\ Liberar(w)
    /\ UNCHANGED <<app, sub, fila, entregas, execs, cancelada, disputa, relogio, contador_requisicoes, atribuidos, erros_limpeza>>

\* the except branch without its last statement: the failure is written and the
\* task body returns normally
CapturarSemRaise(w, m, db_falha) ==
    /\ app = "app10"
    /\ pc[w] = "executando"
    /\ tarefas' = atualizar_status_tarefa(tarefas, tw[w], "falha", Null, Some(m),
                                          relogio, db_falha)
    /\ Liberar(w)
    /\ UNCHANGED <<app, sub, fila, entregas, execs, cancelada, disputa, relogio, contador_requisicoes, atribuidos, erros_limpeza>>

\* the failure path in two steps. First the except branch of the task body:
\* atualizar_status_tarefa(task_id, 'falha', erro=m), then raise: the exception
\* leaves the task body and reaches Celery's task tracer
CapturarERelancar(w, m, db_falha) ==
    /\ app = "app10"
    /\ pc[w] = "executando"
    /\ tarefas' = atualizar_status_tarefa(tarefas, tw[w], "falha", Null, Some(m),
                                          relogio, db_falha)
    /\ pc' = [pc EXCEPT ![w] = "excecao"]
    /\ UNCHANGED <<app, sub, fila, entregas, tw, execs, cancelada, disputa, relogio, contador_requisicoes, atribuidos, erros_limpeza>>

\* then Celery's task tracer catches the exception that left the task body,
\* marks the task failed in the result backend and acknowledges the message; the
\* worker process goes back to its consumer loop
TratarExcecao(w) ==
    /\ app = "app10"
    /\ pc[w] = "excecao"
    /\ Liberar(w)
    /\ UNCHANGED <<app, tarefas, sub, fila, entregas, execs, cancelada, disputa, relogio, contador_requisicoes, atribuidos, erros_limpeza>>

\* the attributes of the module datetime
AtributosDoModuloDatetime == {"datetime", "timedelta", "date"}

\* the attributes of the class datetime.datetime, which the worker module
\* binds to the name datetime (from datetime import datetime)
AtributosDeDatetime == {"utcnow", "now", "fromisoformat"}

\* limpar_tarefas_antigas(dias), run by the periodic schedule:
\* data_limite = datetime.utcnow() - datetime.timedelta(days=dias), then the
\* rows with timestamp_atualizacao < data_limite are deleted. The lookup of
\* an attribute that datetime does not have raises: rollback, the error is
\* counted and re-raised
limpar_tarefas_antigas(dias) ==
    /\ app = "app10"
    /\ erros_limpeza < MaxLimpezas
    /\ IF "timedelta" \in AtributosDeDatetime
       THEN /\ tarefas' = SelectSeq(tarefas,
                    LAMBDA l : ~(l.timestamp_atualizacao[1] < relogio - dias))
            /\ UNCHANGED erros_limpeza
       ELSE /\ erros_limpeza' = erros_limpeza + 1
            /\ UNCHANGED tarefas
    /\ UNCHANGED <<app, sub, fila, entregas, pc, tw, execs, cancelada, disputa, relogio,
                   contador_requisicoes, atribuidos>>

\* -------------------------------------------------------- app9: the worker

\* treinar_modelo / fazer_previsao, up to the call of the executor:
\* atualizar_status_tarefa(task_id, "EM_PROGRESSO"), then modelo.treinar / prever
IniciarApp9(w, db_falha) ==
    /\ app = "app9"
    /\ pc[w] = "recebida"
    /\ tarefas' = atualizar_status_tarefa_app9(tarefas, tw[w], "EM_PROGRESSO", Null, Null,
                                               db_falha)
    /\ execs' = [execs EXCEPT ![tw[w]] = @ + 1]
    /\ pc' = [pc EXCEPT ![w] = "executando"]
    /\ UNCHANGED <<app, sub, fila, entregas, tw, cancelada, disputa, relogio, contador_requisicoes, atribuidos, erros_limpeza>>

\* the task body returns r; Celery sends task_success
tarefa_bem_sucedida(w, r, db_falha) ==
    /\ app = "app9"
    /\ pc[w] = "executando"
    /\ tarefas' = atualizar_status_tarefa_app9(tarefas, tw[w], "CONCLUIDO", Some(r), Null,
                                               db_falha)
    /\ Liberar(w)
    /\ UNCHANGED <<app, sub, fila, entregas, execs, cancelada, disputa, relogio, contador_requisicoes, atribuidos, erros_limpeza>>

\* the task body raises e with str(e) = m; Celery sends task_failure
tarefa_falhou(w, m, db_falha) ==
    /\ app = "app9"
    /\ pc[w] = "executando"
    /\ tarefas' = atualizar_status_tarefa_app9(tarefas, tw[w], "FALHA", Null, Some(m),
                                               db_falha)
    /\ Liberar(w)
    /\ UNCHANGED <<app, sub, fila, entregas, execs, cancelada, disputa, relogio, contador_requisicoes, atribuidos, erros_limpeza>>

\* the handler of task_revoked. Celery dispatches the signal; the service has no
\* cancel operation of its own, so when the signal comes is up to Celery and
\* to whoever asks for the revocation: the model lets it come at any moment
\* after the message was published, once per task. The handler does not wait
\* for, or stop, a task body that is running. cancelada records when the row
\* was marked: before any delivery of the message, while a worker was running
\* the task, or afterwards ("perdida": the write did not reach the row).
tarefa_cancelada(t, db_falha) ==
    /\ app = "app9"
    /\ sub[t] \in {"enviada", "lote_enviada", "retornou"}
    /\ cancelada[t] = "nao"
    /\ tarefas' = atualizar_status_tarefa_app9(tarefas, t, "CANCELADO", Null, Null, db_falha)
    /\ cancelada' = [cancelada EXCEPT ![t] =
            IF db_falha \/ Buscar(tarefas, t) = 0 THEN "perdida"
            ELSE IF entregas[t] = 0 THEN "antes"
            ELSE IF \E w \in Workers : tw[w] = t /\ pc[w] = "executando" THEN "durante"
            ELSE "depois"]
    /\ UNCHANGED <<app, sub, fila, entregas, pc, tw, execs, disputa, relogio, contador_requisicoes, atribuidos, erros_limpeza>>

\* ------------------------------------------------------- the status query

\* app10, GET /tarefa/{task_id}: the row as a StatusTarefa, or 404
verificar_status_tarefa(tab, t) ==
    LET i == Buscar(tab, t) IN
    IF i = 0 THEN [codigo |-> 404]
    ELSE [codigo |-> 200, task_id |-> tab[i].task_id, status |-> tab[i].status,
          resultado |-> tab[i].resultado, erro |-> tab[i].erro,
          timestamp_inicio |-> tab[i].timestamp_inicio,
          timestamp_atualizacao |-> tab[i].timestamp_atualizacao]

\* app9, the values the response schema StatusTarefaResponse accepts
StatusTarefaEnum == {"PENDENTE", "EM_PROGRESSO", "CONCLUIDO", "FALHA", "CANCELADO"}
TipoTarefaEnum == {"TREINAMENTO", "PREVISAO", "PREVISAO_LOTE", "OUTRO"}
EstadosCelery == {"PENDING", "STARTED", "SUCCESS", "FAILURE", "REVOKED"}

\* a response schema whose tipo is a free string
ValidaTipoLivre(r) ==
    /\ r.status \in StatusTarefaEnum
    /\ (r.resultado = Null \/ r.resultado[1] \in Resultados)

\* schemas.StatusTarefaResponse(...) validates its fields: status and tipo
\* against their enums, resultado as a dict (the worker stores a str)
Valida(r) ==
    /\ r.status \in StatusTarefaEnum
    /\ r.tipo \in TipoTarefaEnum
    /\ (r.resultado = Null \/ r.resultado[1] \in Resultados)

\* app9, GET /tarefa/{task_id}. estado is what celery_app.AsyncResult(task_id)
\* reports. Row found: the row as a StatusTarefaResponse; a field the schema
\* rejects is an unhandled ValidationError (500). No row: a response built from
\* the Celery state, inside try / bare except: a rejected field ends in 404.
status_tarefa(tab, t, estado, agora) ==
    LET i == Buscar(tab, t)
        daLinha == [codigo |-> 200, task_id |-> t, status |-> tab[i].status,
                    tipo |-> tab[i].tipo,
                    timestamp_criacao |-> tab[i].timestamp_criacao,
                    timestamp_inicio |-> tab[i].timestamp_inicio,
                    timestamp_fim |-> tab[i].timestamp_fim,
                    resultado |-> tab[i].resultado, erro |-> tab[i].erro]
        doCelery == [codigo |-> 200, task_id |-> t,
                     status |-> CASE estado = "PENDING" -> "PENDENTE"
                                  [] estado = "STARTED" -> "EM_PROCESSAMENTO"
                                  [] estado = "SUCCESS" -> "CONCLUIDA"
                                  [] OTHER -> "FALHA",
                     tipo |-> "desconhecido",
                     timestamp_criacao |-> Some(agora),
                     timestamp_inicio |->
                        IF estado \in {"STARTED", "SUCCESS"} THEN Some(agora) ELSE Null,
                     timestamp_fim |-> IF estado = "SUCCESS" THEN Some(agora) ELSE Null,
                     resultado |-> IF estado = "SUCCESS" THEN Some("metricas") ELSE Null,
                     erro |-> IF estado \in {"PENDING", "STARTED", "SUCCESS"}
                              THEN Null ELSE Some("str(result)")]
    IN  IF i # 0
        THEN IF Valida(daLinha) THEN daLinha ELSE [codigo |-> 500]
        ELSE IF Valida(doCelery) THEN doCelery ELSE [codigo |-> 404]

\* app10, a GET /tarefa/{task_id} request: the handler reads the row and
\* answers verificar_status_tarefa(tarefas, t); it writes nothing
ConsultarApp10(t) ==
    /\ app = "app10"
    /\ verificar_status_tarefa(tarefas, t).codigo \in {200, 404}
    /\ UNCHANGED vars

\* app9, a GET /tarefa/{task_id} request: registrar_requisicao("consultas"),
\* then the handler reads the row and answers status_tarefa(tarefas, t, ...)
ConsultarApp9(t) ==
    /\ app = "app9"
    /\ contador_requisicoes.consultas < MaxConsultas
    /\ contador_requisicoes' = registrar_requisicao(contador_requisicoes, "consultas")
    /\ UNCHANGED <<app, tarefas, sub, fila, entregas, pc, tw, execs, cancelada, disputa, relogio, atribuidos, erros_limpeza>>

\* the steps of a deployment of app10
NextApp10 ==
    \/ Tique
    \/ \E t \in TaskIds, tipo \in TiposApp10 : InserirTarefa(t, tipo)
    \/ \E t \in TaskIds : Enfileirar(t)
    \/ \E t \in TaskIds : EnfileirarFalha(t)
    \/ \E w \in Workers, t \in TaskIds : Receber(w, t)
    \/ \E t \in TaskIds : Reentregar(t)
    \/ \E w \in Workers : WorkerPerdido(w)
    \/ \E w \in Workers, db_falha \in BOOLEAN : IniciarApp10(w, db_falha)
    \/ \E w \in Workers, r \in Resultados, db_falha \in BOOLEAN : ConcluirApp10(w, r, db_falha)
    \/ \E w \in Workers, m \in Mensagens, db_falha \in BOOLEAN : FalharApp10(w, m, db_falha)
    \/ \E t \in TaskIds : ConsultarApp10(t)
    \/ \E dias \in 0..MaxRelogio : limpar_tarefas_antigas(dias)

\* the steps of a deployment of app9
NextApp9 ==
    \/ Tique
    \/ \E t \in TaskIds : EnviarTarefa(t)
    \/ \E t \in TaskIds, tipo \in TiposRegistrar : registrar_tarefa(t, tipo)
    \/ \E t \in TaskIds : prever_lote_inserir(t)
    \/ \E t \in TaskIds : prever_lote_duplicada(t)
    \/ \E t \in TaskIds : prever_lote_delay(t)
    \/ \E t \in TaskIds : prever_lote_delay_falha(t)
    \/ \E t \in TaskIds : prever_lote_atualizar_id(t)
    \/ \E w \in Workers, t \in TaskIds : Receber(w, t)
    \/ \E w \in Workers : WorkerPerdido(w)
    \/ \E w \in Workers, db_falha \in BOOLEAN : IniciarApp9(w, db_falha)
    \/ \E w \in Workers, r \in Resultados, db_falha \in BOOLEAN : tarefa_bem_sucedida(w, r, db_falha)
    \/ \E w \in Workers, m \in Mensagens, db_falha \in BOOLEAN : tarefa_falhou(w, m, db_falha)
    \/ \E t \in TaskIds, db_falha \in BOOLEAN : tarefa_cancelada(t, db_falha)
    \/ \E t \in TaskIds : ConsultarApp9(t)

\* the steps of a deployment of app10 with the failure path of the task body in
\* two steps (the clock, the status query and the cleanup left aside)
NextApp10Excecao ==
    \/ \E t \in TaskIds, tipo \in TiposApp10 : InserirTarefa(t, tipo)
    \/ \E t \in TaskIds : Enfileirar(t)
    \/ \E t \in TaskIds : EnfileirarFalha(t)
    \/ \E w \in Workers, t \in TaskIds : Receber(w, t)
    \/ \E t \in TaskIds : Reentregar(t)
    \/ \E w \in Workers : WorkerPerdido(w)
    \/ \E w \in Workers, db_falha \in BOOLEAN : IniciarApp10(w, db_falha)
    \/ \E w \in Workers, r \in Resultados, db_falha \in BOOLEAN : ConcluirApp10(w, r, db_falha)
    \/ \E w \in Workers, m \in Mensagens, db_falha \in BOOLEAN : CapturarERelancar(w, m, db_falha)
    \/ \E w \in Workers : TratarExcecao(w)

\* the statuses the task bodies write
StatusEscritos == {"em_progresso", "concluida", "falha"}

\* a call atualizar_status_tarefa(task_id, status, resultado, erro) of app10's
\* worker module, taken by itself: any id, submitted or not, any status a task
\* body writes, any result and error, the store reachable or not
EscreverStatus(t, status, resultado, erro, db_falha) ==
    /\ app = "app10"
    /\ tarefas' = atualizar_status_tarefa(tarefas, t, status, resultado, erro,
                                          relogio, db_falha)
    /\ UNCHANGED <<app, sub, fila, entregas, pc, tw, execs, cancelada, disputa, relogio, contador_requisicoes, atribuidos, erros_limpeza>>

\* the status write of app10 applied to the tables that inserts and earlier
\* writes can produce
NextEscrita ==
    \/ Tique
    \/ \E t \in TaskIds, tipo \in TiposApp10 : InserirTarefa(t, tipo)
    \/ \E t \in TaskIds, status \in StatusEscritos, db_falha \in BOOLEAN,
          resultado \in {Null, Some("metricas")}, erro \in {Null} \cup {Some(m) : m \in Mensagens} :
            EscreverStatus(t, status, resultado, erro, db_falha)

\* ------------------------------------------- app9: the request counters

MaxRequisicoes == 3   \* requests counted, and errors counted

\* the module-level dict contador_requisicoes with all its keys
ContadorInicial ==
    [total |-> 0, previsoes_sincronas |-> 0, previsoes_assincronas |-> 0,
     treinamentos_sincronos |-> 0, treinamentos_assincronos |-> 0,
     consultas |-> 0, erros |-> 0]

\* the kinds a handler passes to registrar_requisicao
TiposDeRequisicao ==
    [treinar |-> {"treinamentos_sincronos", "treinamentos_assincronos"},
     prever |-> {"previsoes_sincronas", "previsoes_assincronas"}]

\* POST /treinar or POST /prever (h): the handler enters its try block
entrar_no_try(t, h) ==
    /\ sub[t] = "novo"
    /\ sub' = [sub EXCEPT ![t] = h]
    /\ UNCHANGED <<app, tarefas, fila, entregas, pc, tw, execs, cancelada, disputa, relogio, contador_requisicoes, atribuidos, erros_limpeza>>

\* inside the try, on the sync or on the async branch:
\* registrar_requisicao("treinamentos_sincronos") and the like
contar_no_try(t, tipo) ==
    /\ sub[t] \in DOMAIN TiposDeRequisicao
    /\ tipo \in TiposDeRequisicao[sub[t]]
    /\ contador_requisicoes.total < MaxRequisicoes
    /\ contador_requisicoes' = registrar_requisicao(contador_requisicoes, tipo)
    /\ sub' = [sub EXCEPT ![t] = "contada"]
    /\ UNCHANGED <<app, tarefas, fila, entregas, pc, tw, execs, cancelada, disputa, relogio, atribuidos, erros_limpeza>>

\* an exception inside the try, before or after the request was counted:
\* except: contador_requisicoes["erros"] += 1, then HTTPException
erro_no_try(t) ==
    /\ sub[t] \in DOMAIN TiposDeRequisicao \cup {"contada"}
    /\ contador_requisicoes.erros < MaxRequisicoes
    /\ contador_requisicoes' = [contador_requisicoes EXCEPT !.erros = @ + 1]
    /\ sub' = [sub EXCEPT ![t] = "novo"]
    /\ UNCHANGED <<app, tarefas, fila, entregas, pc, tw, execs, cancelada, disputa, relogio, atribuidos, erros_limpeza>>

\* the handler returns its response
retornar_do_try(t) ==
    /\ sub[t] = "contada"
    /\ sub' = [sub EXCEPT ![t] = "novo"]
    /\ UNCHANGED <<app, tarefas, fila, entregas, pc, tw, execs, cancelada, disputa, relogio, contador_requisicoes, atribuidos, erros_limpeza>>

\* GET /, /tarefa/{id}, /tarefas, /previsoes, /treinamentos, /treinamentos/{id},
\* /status: registrar_requisicao("consultas") is the first statement, and no
\* path of these handlers touches the counters again
contar_consulta(t) ==
    /\ sub[t] = "novo"
    /\ contador_requisicoes.total < MaxRequisicoes
    /\ contador_requisicoes' = registrar_requisicao(contador_requisicoes, "consultas")
    /\ UNCHANGED <<app, tarefas, sub, fila, entregas, pc, tw, execs, cancelada, disputa, relogio, atribuidos, erros_limpeza>>

\* the second router section (/prever-lote, /celery-status, ...): the handlers
\* do not touch the counters
requisicao_nao_contada(t) ==
    /\ sub[t] = "novo"
    /\ UNCHANGED vars

\* the requests of app9 as far as the counters go; t is the request in flight
NextContadores ==
    \/ \E t \in TaskIds, h \in DOMAIN TiposDeRequisicao : entrar_no_try(t, h)
    \/ \E t \in TaskIds, tipo \in UNION {TiposDeRequisicao[h] : h \in DOMAIN TiposDeRequisicao} :
          contar_no_try(t, tipo)
    \/ \E t \in TaskIds : erro_no_try(t)
    \/ \E t \in TaskIds : retornar_do_try(t)
    \/ \E t \in TaskIds : contar_consulta(t)
    \/ \E t \in TaskIds : requisicao_nao_contada(t)

InitContadores ==
    /\ app = "app9"
    /\ tarefas = <<>>
    /\ sub = [t \in TaskIds |-> "novo"]
    /\ fila = [t \in TaskIds |-> 0]
    /\ entregas = [t \in TaskIds |-> 0]
    /\ pc = [w \in Workers |-> "ocioso"]
    /\ tw = [w \in Workers |-> 0]
    /\ execs = [t \in TaskIds |-> 0]
    /\ cancelada = [t \in TaskIds |-> "nao"]
    /\ disputa = [t \in TaskIds |-> FALSE]
    /\ relogio = 0
    /\ contador_requisicoes = ContadorInicial
    /\ atribuidos = {}
    /\ erros_limpeza = 0

SpecContadores == InitContadores /\ [][NextContadores]_vars

InitApp10 == Init /\ app = "app10"
InitApp9 == Init /\ app = "app9"

SpecApp10 == InitApp10 /\ [][NextApp10]_vars
SpecApp9 == InitApp9 /\ [][NextApp9]_vars
SpecApp10Excecao == InitApp10 /\ [][NextApp10Excecao]_vars
SpecEscrita == InitApp10 /\ [][NextEscrita]_vars

\* either service
NextServicos == NextApp10 \/ NextApp9
SpecServicos == Init /\ [][NextServicos]_vars

\* ------------------------------------------------- the task state machine

PENDING == {"pendente", "PENDENTE"}
IN_PROGRESS == {"em_progresso", "EM_PROGRESSO"}
COMPLETED == {"concluida", "CONCLUIDO"}
FAILED == {"falha", "FALHA"}
CANCELLED == {"CANCELADO"}
Terminal == COMPLETED \cup FAILED \cup CANCELLED

Linhas == 1..Len(tarefas)
Executando(t) == {w \in Workers : tw[w] = t /\ pc[w] = "executando"}

\* the status class of a status value
Classe(st) ==
    CASE st \in PENDING -> "PENDING"
      [] st \in IN_PROGRESS -> "IN_PROGRESS"
      [] st \in COMPLETED -> "COMPLETED"
      [] st \in FAILED -> "FAILED"
      [] OTHER -> "CANCELLED"

TransicoesValidas ==
    {<<"PENDING", "IN_PROGRESS">>, <<"IN_PROGRESS", "COMPLETED">>,
     <<"IN_PROGRESS", "FAILED">>, <<"PENDING", "CANCELLED">>,
     <<"IN_PROGRESS", "CANCELLED">>}

\* the row of TarefaAssincrona has the column timestamp_fim; Tarefa has none
TemFim(r) == "timestamp_fim" \in DOMAIN r

\* app9, TarefaAssincrona.duracao: timestamp_fim - timestamp_inicio when both
\* are set, None otherwise
duracao(r) ==
    IF r.timestamp_inicio # Null /\ r.timestamp_fim # Null
    THEN Some(r.timestamp_fim[1] - r.timestamp_inicio[1])
    ELSE Null

\* the task has been delivered once and has not been revoked
SemIncidentes(t) == entregas[t] = 1 /\ cancelada[t] = "nao"

\* ------------------------------------------------------------ the claims

\* C1: when two workers hold the message of one task at the claim step while
\* its row is pending, at most one of them goes on to invoke the executor.
C1_UmVencedor ==
    \A t \in TaskIds : disputa[t] => execs[t] <= 1

\* two workers held the message at the claim step and both invoked the executor
C1_Testemunha ==
    \E t \in TaskIds : disputa[t] /\ execs[t] = 2

\* C2: whatever the number of deliveries of its message, the executor is
\* invoked at most once per task id.
C2_ExecutorUmaVez ==
    \A t \in TaskIds : execs[t] <= 1

\* a message delivered twice, one delivery after the other, and the executor
\* invoked for each delivery
C2_Testemunha ==
    \E t \in TaskIds : ~disputa[t] /\ entregas[t] = 2 /\ execs[t] = 2

\* C3: once a row has a terminal status, no step changes its status, result
\* or error.
C3_TerminalEstavel ==
    [][\A i \in Linhas :
          tarefas[i].status \in Terminal =>
              /\ tarefas'[i].status = tarefas[i].status
              /\ tarefas'[i].resultado = tarefas[i].resultado
              /\ tarefas'[i].erro = tarefas[i].erro]_vars

\* a row that had reached a terminal status (its duracao is set) is back in
\* em_progresso
C3_Testemunha ==
    \E i \in Linhas : tarefas[i].status = "em_progresso" /\ tarefas[i].duracao # Null

\* C4: the status of a row changes only along PENDING -> IN_PROGRESS,
\* IN_PROGRESS -> COMPLETED | FAILED, PENDING | IN_PROGRESS -> CANCELLED.
C4_SoTransicoesValidas ==
    [][\A i \in Linhas :
          \/ tarefas'[i].status = tarefas[i].status
          \/ <<Classe(tarefas[i].status), Classe(tarefas'[i].status)>>
                \in TransicoesValidas]_vars

\* a worker is at the claim step of a task whose row is terminal: a transition
\* is about to be attempted on a terminal record
C4_Testemunha ==
    \E w \in Workers :
        /\ pc[w] = "recebida"
        /\ StatusDe(tarefas, tw[w]) \in {Some("concluida"), Some("falha")}

C7_TerminalCompleto ==
    \A i \in Linhas :
        tarefas[i].status \in Terminal =>
            /\ (tarefas[i].resultado # Null) # (tarefas[i].erro # Null)
            /\ TemFim(tarefas[i]) => tarefas[i].timestamp_fim # Null

\* a failed row with neither a result nor an error
C7_Testemunha ==
    \E i \in Linhas :
        /\ tarefas[i].status = "falha"
        /\ tarefas[i].resultado = Null
        /\ tarefas[i].erro = Null

\* C8: result and error are never both non-null, and both are null while the
\* status is PENDING or IN_PROGRESS.
C8_ResultadoErroExclusivos ==
    \A i \in Linhas :
        /\ ~(tarefas[i].resultado # Null /\ tarefas[i].erro # Null)
        /\ tarefas[i].status \in PENDING \cup IN_PROGRESS =>
              tarefas[i].resultado = Null /\ tarefas[i].erro = Null

\* a row with both a result and an error
C8_Testemunha ==
    \E i \in Linhas : tarefas[i].resultado # Null /\ tarefas[i].erro # Null

\* C9: started_at (timestamp_inicio) is null exactly when the status is
\* PENDING, and finished_at (timestamp_fim) is non-null exactly when the
\* status is terminal.
C9_TimestampsSeguemStatus ==
    \A i \in Linhas :
        /\ tarefas[i].timestamp_inicio = Null <=> tarefas[i].status \in PENDING
        /\ TemFim(tarefas[i]) =>
              (tarefas[i].timestamp_fim # Null <=> tarefas[i].status \in Terminal)

\* a pending row whose timestamp_inicio is set
C9_Testemunha ==
    \E i \in Linhas :
        tarefas[i].status \in PENDING /\ tarefas[i].timestamp_inicio # Null

\* the response of the deployed service's status query
Consulta(t, estado) ==
    IF app = "app10" THEN verificar_status_tarefa(tarefas, t)
    ELSE status_tarefa(tarefas, t, estado, relogio)

\* C10: a status query made after submit has returned, before any delivery of
\* the task's message (and any revocation), finds the row and reports PENDING
\* with started_at null and finished_at null.
C10_ConsultaAposSubmit ==
    \A t \in TaskIds, estado \in EstadosCelery :
        (sub[t] = "retornou" /\ entregas[t] = 0 /\ cancelada[t] = "nao") =>
            LET r == Consulta(t, estado) IN
            /\ r.codigo = 200
            /\ r.status \in PENDING
            /\ r.timestamp_inicio = Null
            /\ ("timestamp_fim" \in DOMAIN r => r.timestamp_fim = Null)

\* a submitted task, not delivered yet, whose status query answers 200 with
\* timestamp_inicio set
C10_Testemunha ==
    \E t \in TaskIds :
        /\ sub[t] = "retornou"
        /\ entregas[t] = 0
        /\ Consulta(t, "PENDING").codigo = 200
        /\ Consulta(t, "PENDING").timestamp_inicio # Null

\* C11: every message in the queue, and every task a worker holds, has a row
\* in the task table with the same task_id.
C11_MensagemTemRegistro ==
    \A t \in TaskIds :
        (fila[t] > 0 \/ \E w \in Workers : tw[w] = t) => Buscar(tarefas, t) # 0

\* a worker is running the executor for a task that has no row
C11_Testemunha ==
    \E w \in Workers : pc[w] = "executando" /\ Buscar(tarefas, tw[w]) = 0

\* C12: when the executor raises with message m in the first run of a task and
\* the failure write reaches the store, the row is FAILED, its error is m and
\* its result is null.
C12_FalhaRegistrada ==
    [][\A w \in Workers, m \in Mensagens :
          (FalharApp10(w, m, FALSE) /\ execs[tw[w]] = 1) =>
              LET i == Buscar(tarefas, tw[w]) IN
              /\ tarefas'[i].status = "falha"
              /\ tarefas'[i].erro = Some(m)
              /\ tarefas'[i].resultado = Null]_vars

\* a task delivered once and run once whose row is FAILED without an error
C12_Testemunha ==
    \E i \in Linhas :
        /\ tarefas[i].status = "falha"
        /\ tarefas[i].erro = Null
        /\ entregas[tarefas[i].task_id] = 1
        /\ execs[tarefas[i].task_id] = 1

C14_ConsultaSoLe ==
    [][\A t \in TaskIds :
          (ConsultarApp10(t) \/ ConsultarApp9(t)) => UNCHANGED vars]_vars

\* app9: a query has been answered and the request statistics have moved
C14_Testemunha ==
    app = "app9" /\ contador_requisicoes.consultas > 0

\* C15: when a worker is lost while it holds the message of a task (after the
\* claim, before the COMPLETED / FAILED write), the message is unacknowledged
\* and is back in the queue for redelivery.
C15_PerdidoVoltaParaFila ==
    [][\A w \in Workers :
          WorkerPerdido(w) => fila'[tw[w]] > 0]_vars

\* app9: a claimed task whose worker is gone: the row reads EM_PROGRESSO, no
\* worker holds the message and the queue has no copy of it
C15_Testemunha ==
    /\ app = "app9"
    /\ \E t \in TaskIds :
          /\ StatusDe(tarefas, t) = Some("EM_PROGRESSO")
          /\ cancelada[t] = "nao"
          /\ fila[t] = 0
          /\ \A w \in Workers : tw[w] # t

\* C16: for a registered task delivered once and not revoked, with the store
\* writes succeeding: the pickup step leaves the row IN_PROGRESS with
\* started_at set, and the step after the executor has returned leaves it
\* COMPLETED with a result, finished_at set and a duration >= 0.
C16_CaminhoFeliz ==
    [][\A w \in Workers :
          /\ (IniciarApp9(w, FALSE) /\ SemIncidentes(tw[w]) /\ Buscar(tarefas, tw[w]) # 0) =>
                LET l == tarefas'[Buscar(tarefas, tw[w])] IN
                /\ l.status \in IN_PROGRESS
                /\ l.timestamp_inicio # Null
          /\ \A r \in Resultados :
                (tarefa_bem_sucedida(w, r, FALSE) /\ SemIncidentes(tw[w])
                     /\ StatusDe(tarefas, tw[w]) = Some("EM_PROGRESSO")) =>
                    LET l == tarefas'[Buscar(tarefas, tw[w])] IN
                    /\ l.status \in COMPLETED
                    /\ l.resultado # Null
                    /\ l.timestamp_fim # Null
                    /\ duracao(l) # Null
                    /\ duracao(l)[1] >= 0]_vars

\* app9: a task delivered once and not revoked went PENDENTE, EM_PROGRESSO,
\* CONCLUIDO; its row has a result and no timestamp_inicio, no timestamp_fim
C16_Testemunha ==
    /\ app = "app9"
    /\ \E i \in Linhas :
          /\ tarefas[i].task_id \in TaskIds
          /\ SemIncidentes(tarefas[i].task_id)
          /\ execs[tarefas[i].task_id] = 1
          /\ tarefas[i].status = "CONCLUIDO"
          /\ tarefas[i].resultado # Null
          /\ tarefas[i].timestamp_inicio = Null
          /\ tarefas[i].timestamp_fim = Null

\* C17: no two rows share a task_id, every task id returned to a caller has
\* exactly one row, and a task_id that one row has held is never held by
\* another row.
C17_UmRegistroPorId ==
    /\ \A i, j \in Linhas : i # j => tarefas[i].task_id # tarefas[j].task_id
    /\ \A t \in TaskIds :
          sub[t] = "retornou" => Cardinality({i \in Linhas : tarefas[i].task_id = t}) = 1
    /\ \A p, q \in atribuidos : p[2] = q[2] => p[1] = q[1]

\* app9: two rows have held the same task_id, the placeholder
C17_Testemunha ==
    /\ app = "app9"
    /\ \E p, q \in atribuidos : p[2] = Pendente /\ q[2] = Pendente /\ p[1] # q[1]

\* C18: no step changes the task_id, type, params or created_at of a row that
\* exists.
C18_CamposImutaveis ==
    [][\A i \in Linhas :
          /\ i \in 1..Len(tarefas')
          /\ tarefas'[i].task_id = tarefas[i].task_id
          /\ tarefas'[i].tipo = tarefas[i].tipo
          /\ IF TemFim(tarefas[i])
             THEN /\ tarefas'[i].parametros = tarefas[i].parametros
                  /\ tarefas'[i].timestamp_criacao = tarefas[i].timestamp_criacao
             ELSE /\ tarefas'[i].dados_entrada = tarefas[i].dados_entrada
                  /\ tarefas'[i].timestamp_inicio = tarefas[i].timestamp_inicio]_vars

\* app9: a row that was inserted under the placeholder holds another task_id
C18_Testemunha ==
    /\ app = "app9"
    /\ \E p \in atribuidos : p[2] = Pendente /\ tarefas[p[1]].task_id # Pendente

\* C19: the duration recorded when the first run of a task completes is the
\* time from the moment the worker began (its em_progresso write, the last
\* update of the row) to the moment of the completion write.
C19_DuracaoDaExecucao ==
    [][\A w \in Workers, r \in Resultados :
          (ConcluirApp10(w, r, FALSE) /\ entregas[tw[w]] = 1
               /\ StatusDe(tarefas, tw[w]) = Some("em_progresso")) =>
              LET i == Buscar(tarefas, tw[w]) IN
              tarefas'[i].duracao =
                  Some(relogio - tarefas[i].timestamp_atualizacao[1])]_vars

\* app10: a worker is executing a task that it began later than the task's
\* timestamp_inicio
C19_Testemunha ==
    \E w \in Workers :
        /\ pc[w] = "executando"
        /\ entregas[tw[w]] = 1
        /\ LET l == tarefas[Buscar(tarefas, tw[w])] IN
           /\ l.status = "em_progresso"
           /\ l.timestamp_inicio[1] < l.timestamp_atualizacao[1]

MaxLimit == 2       \* largest page size of a listing request
MaxOffset == 1      \* largest offset of a listing request

\* the optional query parameters status and tipo of GET /tarefas
FiltrosStatus == {Null} \cup {Some(s) : s \in StatusTarefaEnum}
FiltrosTipo == {Null} \cup {Some(s) : s \in TipoTarefaEnum}

\* query.filter(status == ...).filter(tipo == ...), each only when given
Selecionadas(tab, status, tipo) ==
    SelectSeq(tab, LAMBDA r : /\ (status = Null \/ r.status = status[1])
                              /\ (tipo = Null \/ r.tipo = tipo[1]))

\* order_by(desc(timestamp_criacao)): rows are inserted with a clock that never
\* goes back, so the reverse of the insertion order is such an order
OrdemDecrescente(s) == [i \in 1..Len(s) |-> s[Len(s) + 1 - i]]

\* .offset(offset).limit(limit)
Pagina(s, offset, limit) ==
    SubSeq(s, offset + 1, IF offset + limit < Len(s) THEN offset + limit ELSE Len(s))

\* db.query(TarefaAssincrona).filter(status == st).count(): over the whole table
ContarStatus(tab, st) == Cardinality({i \in 1..Len(tab) : tab[i].status = st})

\* app9, GET /tarefas: the page of the filtered query as StatusTarefaResponse
\* objects (a row the schema rejects is an unhandled ValidationError), total =
\* query.count() of the filtered query, the four per-status counts
listar_tarefas(tab, status, tipo, limit, offset) ==
    LET sel == Selecionadas(tab, status, tipo)
        pag == Pagina(OrdemDecrescente(sel), offset, limit)
    IN  IF \E i \in 1..Len(pag) : ~Valida(pag[i])
        THEN [codigo |-> 500]
        ELSE [codigo |-> 200, tarefas |-> pag, total |-> Len(sel),
              pendentes |-> ContarStatus(tab, "PENDENTE"),
              em_progresso |-> ContarStatus(tab, "EM_PROGRESSO"),
              concluidas |-> ContarStatus(tab, "CONCLUIDO"),
              falhas |-> ContarStatus(tab, "FALHA")]

\* C22: a listing returns only records that match every filter given, at most
\* limit of them, counts all records when no filter is given, and its per-status
\* totals count the records of the set that total counts.
C22_ListagemConsistente ==
    app = "app9" =>
    \A status \in FiltrosStatus, tipo \in FiltrosTipo,
       limit \in 1..MaxLimit, offset \in 0..MaxOffset :
        LET r == listar_tarefas(tarefas, status, tipo, limit, offset)
            sel == Selecionadas(tarefas, status, tipo)
        IN  r.codigo = 200 =>
              /\ \A i \in 1..Len(r.tarefas) :
                    /\ status # Null => r.tarefas[i].status = status[1]
                    /\ tipo # Null => r.tarefas[i].tipo = tipo[1]
              /\ Len(r.tarefas) <= limit
              /\ (status = Null /\ tipo = Null) => r.total = Len(tarefas)
              /\ r.pendentes = ContarStatus(sel, "PENDENTE")
              /\ r.em_progresso = ContarStatus(sel, "EM_PROGRESSO")
              /\ r.concluidas = ContarStatus(sel, "CONCLUIDO")
              /\ r.falhas = ContarStatus(sel, "FALHA")

\* a filtered listing is answered with a non-empty page while the table holds a
\* record the filter leaves out
C22_Testemunha ==
    /\ app = "app9"
    /\ \E status \in FiltrosStatus \ {Null} :
          LET r == listar_tarefas(tarefas, status, Null, MaxLimit, 0)
          IN  /\ r.codigo = 200
              /\ Len(r.tarefas) > 0
              /\ r.total < Len(tarefas)

\* ---------------------------------------------------------------- C23

C24_EscritaRepetida ==
    [][\A w \in Workers, r \in Resultados :
          (/\ StatusDe(tarefas, tw[w]) = Some("em_progresso")
           /\ ConcluirApp10(w, r, TRUE))
          => pc'[w] # "ocioso"]_vars

\* the executor of a task ran once and returned, the message is gone and no
\* worker holds the task, yet its record is em_progresso
C24_Testemunha ==
    \E t \in TaskIds :
        /\ app = "app10"
        /\ StatusDe(tarefas, t) = Some("em_progresso")
        /\ entregas[t] = 1 /\ execs[t] = 1 /\ fila[t] = 0
        /\ \A w \in Workers : pc[w] = "ocioso"
        /\ sub[t] = "retornou"

\* ---------------------------------------------------------------- C25

\* C25: in the placeholder-id submission path, between the enqueue and the id
\* update no record carries the task's final id, and a status query for that id
\* is answered not found, whatever state Celery reports for the task.
C25_JanelaSemRegistro ==
    \A t \in TaskIds :
        sub[t] = "lote_enviada" =>
            /\ Buscar(tarefas, t) = 0
            /\ Buscar(tarefas, Pendente) # 0
            /\ \A estado \in EstadosCelery : Consulta(t, estado).codigo = 404

\* inside the window a worker has already taken the task, called the executor
\* and let go of it, and the query for the task's id is still answered not found
C25_Testemunha ==
    \E t \in TaskIds :
        /\ sub[t] = "lote_enviada"
        /\ execs[t] = 1
        /\ \A w \in Workers : tw[w] # t
        /\ Consulta(t, "SUCCESS").codigo = 404

\* ---------------------------------------------------------------- C26

C27_DesfechoChegaAoRegistro ==
    [][\A w \in Workers, r \in Resultados :
          (/\ pc[w] = "executando"
           /\ sub[tw[w]] \in {"enviada", "retornou"}
           /\ cancelada[tw[w]] = "nao"
           /\ tarefa_bem_sucedida(w, r, FALSE))
          => StatusDe(tarefas', tw[w]) = Some("CONCLUIDO")]_vars

\* a worker is running the executor of a task that the submitter has enqueued
\* and not yet inserted
C27_Testemunha ==
    \E w \in Workers :
        /\ app = "app9"
        /\ pc[w] = "executando"
        /\ sub[tw[w]] = "enviada"
        /\ Buscar(tarefas, tw[w]) = 0

\* ---------------------------------------------------------------- C28

\* C28: in the placeholder-id path every submission that reaches its insert
\* step adds a record of its own to the table, whatever the other submissions
\* have done.
C28_SubmissoesIndependentes ==
    [][\A t \in TaskIds :
          (sub[t] = "novo" /\ sub'[t] \in {"lote_inserida", "erro"})
          => Len(tarefas') = Len(tarefas) + 1]_vars

\* a submission failed at the enqueue step and left its record under the
\* placeholder; the other submission was rejected at its insert step
C28_Testemunha ==
    /\ app = "app9"
    /\ \A t \in TaskIds : sub[t] = "erro"
    /\ Len(tarefas) = 1
    /\ tarefas[1].task_id = Pendente

\* ---------------------------------------------------------------- C29

\* C29: whenever the executor of app10 is running for a task id, a record with
\* that id exists and its status is em_progresso (the executor is not called
\* when the claim write returned False).
C29_ExecutaSoEmProgresso ==
    \A w \in Workers :
        (app = "app10" /\ pc[w] = "executando") =>
            StatusDe(tarefas, tw[w]) = Some("em_progresso")

\* the executor is running on the first delivery of a task whose record is
\* still pendente
C29_Testemunha ==
    \E w \in Workers :
        /\ app = "app10"
        /\ pc[w] = "executando"
        /\ entregas[tw[w]] = 1
        /\ StatusDe(tarefas, tw[w]) = Some("pendente")

\* ---------------------------------------------------------------- C30

\* the five per-kind counters
ContadoresPorTipo ==
    {"previsoes_sincronas", "previsoes_assincronas", "treinamentos_sincronos",
     "treinamentos_assincronos", "consultas"}

====
